---- MODULE Spec2Model ----
(***************************************************************************)
(* Model of scripts/spain_route_map.py: one run of main(), the two HTTP    *)
(* requests it may issue, what it prints, the file it may write, and the   *)
(* pure formatting helpers.                                                *)
(*                                                                         *)
(* Text is modelled as a sequence of tokens.  A token is either a run of   *)
(* characters that urllib.parse.quote never escapes (letters, digits,      *)
(* underscore, dot, hyphen, tilde) or one single other character.          *)
(***************************************************************************)
EXTENDS Integers, Sequences, FiniteSets, TLC

VARIABLES
    pc,            \* position of main()
    api_key,       \* the value of GOOGLE_MAPS_API_KEY in the environment
    stdout,        \* the lines printed so far, each a text
    requests,      \* the URLs handed to urllib.request.urlopen, in order
    reply,         \* the JSON document the Directions request was answered with
    img,           \* save_static_map's img: the bytes the Static Maps request gave
    info,          \* the dict call_directions returned
    ordered_places,\* main's ordered_places
    total_meters,  \* main's total_meters
    total_seconds, \* main's total_seconds
    png,           \* what the run did to spain_route.png
    png_opens,     \* how many times the run opened spain_route.png for writing
    exit           \* how the process ended

vars == <<pc, api_key, stdout, requests, reply, img, info, ordered_places,
          total_meters, total_seconds, png, png_opens, exit>>

-----------------------------------------------------------------------------
(* Bounds of the model                                                     *)

\* longest waypoint_order the Directions API is taken to return
MaxOrderLen == 3
\* most legs in a route of the main specification
MaxLegs == 2
\* largest total of seconds the duration formatter is applied to
MaxSeconds == 7400
\* largest total of meters the distance formatter is applied to
MaxMeters == 12600

-----------------------------------------------------------------------------
(* Generic sequence helpers                                                *)

Last(s) == s[Len(s)]

RECURSIVE Dec(_)
\* str(n) for an int n >= 0: its decimal digits, most significant first
Dec(n) ==
    LET digit == <<"0", "1", "2", "3", "4", "5", "6", "7", "8", "9">>
    IN  IF n < 10 THEN <<digit[n + 1]>>
        ELSE Dec(n \div 10) \o <<digit[(n % 10) + 1]>>

-----------------------------------------------------------------------------
(* Python values                                                           *)

None == "None"

\* the test written as: api_key is None
Truthy_none_only(v) == v # None

\* not v is False for a str exactly when it is non-empty and not None
Truthy(v) == v \notin {None, ""}

\* list[i] with Python's negative indices; callers test InRange first
InRange(s, i) == -Len(s) <= i /\ i < Len(s)
PyIndex(s, i) == IF i >= 0 THEN s[i + 1] ELSE s[Len(s) + i + 1]

\* places[1:-1]
Interior(s) == IF Len(s) <= 2 THEN <<>> ELSE SubSeq(s, 2, Len(s) - 1)

-----------------------------------------------------------------------------
(* PLACES                                                                  *)

PLACES == <<
    <<"Royal", " ", "Monastery", " ", "of", " ", "El", " ", "Escorial", ",", " ",
      "San", " ", "Lorenzo", " ", "de", " ", "El", " ", "Escorial", ",", " ", "Spain">>,
    <<"Royal", " ", "Palace", " ", "of", " ", "Madrid", ",", " ", "Madrid", ",", " ", "Spain">>,
    <<"Almudena", " ", "Cathedral", ",", " ", "Madrid", ",", " ", "Spain">>,
    <<"San", " ", "Gin", "é", "s", " ", "de", " ", "Arl", "é", "s", " ", "Church", ",", " ",
      "Madrid", ",", " ", "Spain">>,
    <<"Toledo", " ", "Cathedral", ",", " ", "Toledo", ",", " ", "Spain">>
>>

-----------------------------------------------------------------------------
(* urllib.parse.quote                                                      *)

\* the single-character tokens of the model and their UTF-8 bytes in hex
Utf8Hex == [c \in {" ", "é", "%", "|", ",", ":", "&", "=", "?", "/", "@", "^"} |->
    CASE c = " " -> <<"20">>
      [] c = "é" -> <<"C3", "A9">>
      [] c = "%" -> <<"25">>
      [] c = "|" -> <<"7C">>
      [] c = "," -> <<"2C">>
      [] c = ":" -> <<"3A">>
      [] c = "&" -> <<"26">>
      [] c = "=" -> <<"3D">>
      [] c = "?" -> <<"3F">>
      [] c = "/" -> <<"2F">>
      [] c = "@" -> <<"40">>
      [] c = "^" -> <<"5E">>]

RECURSIVE PercentBytes(_)
PercentBytes(hex) ==
    IF hex = <<>> THEN <<>> ELSE <<"%", Head(hex)>> \o PercentBytes(Tail(hex))

RECURSIVE quote(_, _)
\* urllib.parse.quote(value, safe=safe): a token outside DOMAIN Utf8Hex is a
\* run of never-escaped characters; a single character is kept when it is in
\* safe and otherwise replaced by %XX for each of its UTF-8 bytes
quote(value, safe) ==
    IF value = <<>> THEN <<>>
    ELSE LET c == Head(value)
         IN  (IF c \notin DOMAIN Utf8Hex \/ c \in safe
              THEN <<c>>
              ELSE PercentBytes(Utf8Hex[c]))
             \o quote(Tail(value), safe)

\* the default safe set of _encode_param; of its characters only the bar, the
\* comma and the colon are ones quote would otherwise escape
DefaultSafe == {"|", ",", ":"}

_encode_param(value) == quote(value, DefaultSafe)

RECURSIVE JoinWith(_, _)
\* sep.join(items)
JoinWith(sep, items) ==
    IF items = <<>> THEN <<>>
    ELSE IF Len(items) = 1 THEN Head(items)
    ELSE Head(items) \o sep \o JoinWith(sep, Tail(items))

\* the pairs k=_encode_param(v), joined by an ampersand
EncodeQuery(pairs) ==
    JoinWith(<<"&">>,
             [i \in 1..Len(pairs) |-> <<pairs[i][1], "=">> \o _encode_param(pairs[i][2])])

-----------------------------------------------------------------------------
(* build_gmaps_share_link                                                  *)

\* the optimized argument: None, or a list of indices into places[1:-1]
NoOrder == [given |-> FALSE]
Order(o) == [given |-> TRUE, order |-> o]

\* the indices taken into places instead of places[1:-1]
PickWaypoints_whole_list(places, order) ==
    [k \in 1..Len(order) |-> PyIndex(places, order[k])]

\* [places[1:-1][i] for i in optimized]
PickWaypoints(places, order) ==
    [k \in 1..Len(order) |-> PyIndex(Interior(places), order[k])]

\* every index of order is one Python accepts for places[1:-1]
OrderInRange(places, order) ==
    \A k \in 1..Len(order) : InRange(Interior(places), order[k])

ShareBase == "https://www.google.com/maps/dir/?"

\* the optimized order never applied
build_gmaps_share_link_unordered(places, optimized) ==
    LET params == << <<"api", <<"1">> >>,
                     <<"origin", places[1]>>,
                     <<"destination", Last(places)>>,
                     <<"travelmode", <<"driving">> >> >>
                  \o (IF Interior(places) # <<>>
                      THEN << <<"waypoints", JoinWith(<<"|">>, Interior(places))>> >>
                      ELSE <<>>)
    IN  <<ShareBase>> \o EncodeQuery(params)

build_gmaps_share_link(places, optimized) ==
    LET origin == places[1]
        destination == Last(places)
        waypoints_list == IF optimized.given
                          THEN PickWaypoints(places, optimized.order)
                          ELSE Interior(places)
        params == << <<"api", <<"1">> >>,
                     <<"origin", origin>>,
                     <<"destination", destination>>,
                     <<"travelmode", <<"driving">> >> >>
                  \o (IF waypoints_list # <<>>
                      THEN << <<"waypoints", JoinWith(<<"|">>, waypoints_list)>> >>
                      ELSE <<>>)
    IN  <<ShareBase>> \o EncodeQuery(params)

-----------------------------------------------------------------------------
(* The request URLs of call_directions and save_static_map                 *)

DirectionsBase == "https://maps.googleapis.com/maps/api/directions/json"

DirectionsURL(key, places) ==
    LET origin == places[1]
        destination == Last(places)
        waypoints == Interior(places)
        params == << <<"origin", origin>>,
                     <<"destination", destination>>,
                     <<"mode", <<"driving">> >>,
                     <<"language", <<"en">> >>,
                     <<"key", <<key>> >> >>
                  \o (IF waypoints # <<>>
                      THEN << <<"waypoints", <<"optimize", ":", "true", "|">>
                                             \o JoinWith(<<"|">>, waypoints)>> >>
                      ELSE <<>>)
    IN  <<DirectionsBase, "?">> \o EncodeQuery(params)

StaticMapBase == "https://maps.googleapis.com/maps/api/staticmap"

\* 1..9 are their digit, 10 is A, 11 is B, ...: chr(ord(A) + (i - 10))
marker_label(i) ==
    LET upper == <<"A", "B", "C", "D", "E", "F", "G", "H", "I", "J", "K", "L", "M",
                   "N", "O", "P", "Q", "R", "S", "T", "U", "V", "W", "X", "Y", "Z">>
    IN  IF 1 <= i /\ i <= 9 THEN Dec(i)
        ELSE IF i - 9 \in 1..Len(upper) THEN <<upper[i - 9]>>
        ELSE <<"chr", Dec(55 + i)>>

StaticMapURL(key, polyline, ordered) ==
    LET marker_params ==
            [k \in 1..Len(ordered) |->
                <<"markers", <<"color", ":", "blue", "|", "label", ":">>
                             \o marker_label(k) \o <<"|">> \o ordered[k]>>]
        path_value == <<"enc", ":">> \o quote(polyline, {})
        query_items == << <<"size", <<"800x600">> >>,
                          <<"key", <<key>> >>,
                          <<"path", path_value>> >> \o marker_params
    IN  <<StaticMapBase, "?">> \o EncodeQuery(query_items)

-----------------------------------------------------------------------------
(* format_duration_seconds                                                 *)

\* the minutes appended only when they are not zero
format_duration_seconds_no_fallback(seconds) ==
    LET hours == seconds \div 3600
        minutes == (seconds % 3600) \div 60
        parts1 == IF hours # 0 THEN << Dec(hours) \o <<"h">> >> ELSE <<>>
        parts == IF minutes # 0
                 THEN Append(parts1, Dec(minutes) \o <<"m">>)
                 ELSE parts1
    IN  JoinWith(<<" ">>, parts)

format_duration_seconds(seconds) ==
    LET hours == seconds \div 3600
        minutes == (seconds % 3600) \div 60
        parts1 == IF hours # 0 THEN << Dec(hours) \o <<"h">> >> ELSE <<>>
        parts == IF minutes # 0 \/ parts1 = <<>>
                 THEN Append(parts1, Dec(minutes) \o <<"m">>)
                 ELSE parts1
    IN  JoinWith(<<" ">>, parts)

-----------------------------------------------------------------------------
(* format_distance_meters                                                  *)
(* meters / 1000.0 is an IEEE-754 double: the quotient correctly rounded   *)
(* to 53 significant bits.  A double is kept as the exact quotient n / d   *)
(* plus the sign of (double - n/d), which decides the ties of the decimal  *)
(* roundings made from it.                                                 *)

SignificandBits == 53

RECURSIVE LongDivision(_, _, _, _)
\* binary long division of r / b (0 <= r < b) for `left` more quotient bits;
\* `lastbit` is the bit produced last.  Gives the sign of the final rounding
\* to nearest, ties to even.
LongDivision(r, b, left, lastbit) ==
    IF left = 0
    THEN IF r = 0 THEN 0
         ELSE IF 2 * r < b THEN -1
         ELSE IF 2 * r > b THEN 1
         ELSE IF lastbit = 0 THEN -1 ELSE 1
    ELSE IF 2 * r >= b
         THEN LongDivision(2 * r - b, b, left - 1, 1)
         ELSE LongDivision(2 * r, b, left - 1, 0)

RECURSIVE ScaleUp(_, _)
\* a doubled until it is at least b
ScaleUp(a, b) == IF a >= b THEN a ELSE ScaleUp(2 * a, b)

RECURSIVE ScaleDown(_, _)
\* b doubled while the double of it is still at most a
ScaleDown(a, b) == IF 2 * b > a THEN b ELSE ScaleDown(a, 2 * b)

\* the sign of (float(n) / float(d) - n/d) for ints n >= 0, d > 0: the
\* quotient is scaled by a power of two into [1, 2), its leading bit is 1 and
\* the other bits of the significand come from the long division
DivisionError(n, d) ==
    IF n = 0 THEN 0
    ELSE LET a == ScaleUp(n, d)
             b == ScaleDown(n, d)
         IN  LongDivision(a - b, b, SignificandBits - 1, 1)

\* meters / 1000.0
TrueDiv(n, d) == [n |-> n, d |-> d, err |-> DivisionError(n, d)]

\* the integer nearest to x * scale, a tie of the double going to the even one
RoundScaled(x, scale) ==
    LET s == x.n * scale
        q == s \div x.d
        r == s % x.d
    IN  IF 2 * r < x.d THEN q
        ELSE IF 2 * r > x.d THEN q + 1
        ELSE IF x.err < 0 THEN q
        ELSE IF x.err > 0 THEN q + 1
        ELSE IF q % 2 = 0 THEN q ELSE q + 1

\* the threshold tested with > instead of >=
format_distance_meters_strict(meters) ==
    LET km == TrueDiv(meters, 1000)
    IN  IF km.n > 10 * km.d
        THEN Dec(RoundScaled(km, 1)) \o <<" ", "km">>
        ELSE LET tenths == RoundScaled(km, 10)
             IN  Dec(tenths \div 10) \o <<".">> \o Dec(tenths % 10) \o <<" ", "km">>

format_distance_meters(meters) ==
    LET km == TrueDiv(meters, 1000)
    IN  IF km.n >= 10 * km.d
        THEN Dec(RoundScaled(km, 1)) \o <<" ", "km">>
        ELSE LET tenths == RoundScaled(km, 10)
             IN  Dec(tenths \div 10) \o <<".">> \o Dec(tenths % 10) \o <<" ", "km">>

-----------------------------------------------------------------------------
(* JSON values as json.loads returns them.  Every value carries its type   *)
(* in t; a dict is a record of its possible keys, an unset key is Absent.  *)

Absent == [t |-> "absent"]
Null == [t |-> "null"]
JInt(n) == [t |-> "int", v |-> n]
JStr(s) == [t |-> "str", v |-> s]
JList(l) == [t |-> "list", v |-> l]
JDict(r) == [t |-> "dict", v |-> r]

\* d.get(key, default)
Get(d, key, default) == IF d.v[key].t = "absent" THEN default ELSE d.v[key]

ValueDict(x) == JDict([value |-> x])
LegDict(dist, dur) == JDict([distance |-> dist, duration |-> dur])
PointsDict(x) == JDict([points |-> x])
RouteDict(order, legs, poly) ==
    JDict([waypoint_order |-> order, legs |-> legs, overview_polyline |-> poly])
ResponseDict(status, routes) == JDict([status |-> status, routes |-> routes])

-----------------------------------------------------------------------------
(* What the two services may answer                                        *)

\* the indices Python accepts for places[1:-1], and one beyond at each end
Indexes == (-(Len(Interior(PLACES)) + 1)) .. Len(Interior(PLACES))

WaypointOrders == UNION {[1..k -> Indexes] : k \in 0..MaxOrderLen}

\* list(range(len(waypoints)))
IdentityOrder == [k \in 1..Len(Interior(PLACES)) |-> k - 1]

LegChoices == {
    LegDict(Absent, Absent),
    LegDict(ValueDict(Null), ValueDict(Absent)),
    LegDict(ValueDict(JInt(5400)), ValueDict(JInt(3540))),
    LegDict(ValueDict(JInt(7000)), ValueDict(JInt(3700))),
    LegDict(Null, ValueDict(JInt(60))) }

LegLists == UNION {[1..k -> LegChoices] : k \in 0..MaxLegs}

SamplePolyline == <<"a", "^", "B", "|", "c", "?", "@">>

Polylines == {Absent, PointsDict(Absent), PointsDict(JStr(SamplePolyline))}

SampleLegs == << LegDict(ValueDict(JInt(5400)), ValueDict(JInt(3540))) >>

Routes ==
    {RouteDict(JList(o), JList(SampleLegs), PointsDict(JStr(SamplePolyline))) :
        o \in WaypointOrders}
    \cup {RouteDict(Absent, legs, poly) :
        legs \in {Absent} \cup {JList(l) : l \in LegLists}, poly \in Polylines}

Statuses == {Absent, JStr("OK"), JStr("ZERO_RESULTS"), JStr("REQUEST_DENIED")}

DirectionsResponses ==
    {ResponseDict(st, rs) : st \in Statuses, rs \in {Absent, JList(<<>>)}}
    \cup {ResponseDict(st, JList(<<r>>)) : st \in {JStr("OK"), JStr("ZERO_RESULTS")},
                                           r \in Routes}

\* urlopen raising, or the body not being JSON
FetchErrors == {"URLError", "JSONDecodeError"}

-----------------------------------------------------------------------------
(* call_directions, from the parsed response on                            *)

Raise(e) == [raised |-> e]
Return(x) == [raised |-> "", value |-> x]

\* the status of the response never tested
call_directions_no_status_check(data) ==
    IF data.v.routes.t = "absent" THEN Raise("KeyError")
    ELSE IF data.v.routes.v = <<>> THEN Raise("IndexError")
    ELSE LET route == data.v.routes.v[1]
             waypoint_order == Get(route, "waypoint_order", JList(IdentityOrder))
             legs == Get(route, "legs", JList(<<>>))
             overview_polyline ==
                 Get(Get(route, "overview_polyline", PointsDict(Absent)),
                     "points", JStr(<<>>))
         IN  Return([waypoint_order |-> waypoint_order.v,
                     legs |-> legs.v,
                     polyline |-> overview_polyline.v])

call_directions(data) ==
    LET status == Get(data, "status", Null)
    IN  IF ~(status.t = "str" /\ status.v = "OK") THEN Raise("RuntimeError")
        ELSE IF data.v.routes.t = "absent" THEN Raise("KeyError")
        ELSE IF data.v.routes.v = <<>> THEN Raise("IndexError")
        ELSE LET route == data.v.routes.v[1]
                 waypoint_order == Get(route, "waypoint_order", JList(IdentityOrder))
                 legs == Get(route, "legs", JList(<<>>))
                 overview_polyline ==
                     Get(Get(route, "overview_polyline", PointsDict(Absent)),
                         "points", JStr(<<>>))
             IN  Return([waypoint_order |-> waypoint_order.v,
                         legs |-> legs.v,
                         polyline |-> overview_polyline.v])

NoInfo == [waypoint_order |-> <<>>, legs |-> <<>>, polyline |-> <<>>]

\* a local variable that was never assigned
Unset == "unset"

-----------------------------------------------------------------------------
(* main's totals loop                                                      *)

\* leg.get(key, {}) is None: the .get on it raises AttributeError
LegRaises(leg) ==
    \/ Get(leg, "distance", ValueDict(Absent)).t # "dict"
    \/ Get(leg, "duration", ValueDict(Absent)).t # "dict"

\* int(leg.get(key, {}).get(value, 0) or 0)
LegValue(leg, key) ==
    LET x == Get(Get(leg, key, ValueDict(Absent)), "value", JInt(0))
    IN  IF x.t = "int" THEN x.v ELSE 0

RECURSIVE SumLegs(_, _)
SumLegs(legs, key) ==
    IF legs = <<>> THEN 0
    ELSE LegValue(Head(legs), key) + SumLegs(Tail(legs), key)

-----------------------------------------------------------------------------
(* Printed lines                                                           *)

\* the lines of: for i, p in enumerate(places, start=1): print(f"  {i}. {p}")
StopLines(places) ==
    [i \in 1..Len(places) |-> <<"  ">> \o Dec(i) \o <<". ">> \o places[i]]

Blank == <<>>

\* what main has printed when it reaches the test of api_key
StopsOutput ==
    << <<"Spain Trip Planned Stops (from memories):">> >>
    \o StopLines(PLACES) \o <<Blank>>

\* [PLACES[0]] + optimized_waypoints + [PLACES[-1]]
OrderedPlaces(waypoint_order) ==
    <<PLACES[1]>> \o PickWaypoints(PLACES, waypoint_order) \o <<Last(PLACES)>>

-----------------------------------------------------------------------------
(* main                                                                    *)

Init ==
    /\ pc = "start"
    /\ api_key \in {None, "", "KEY"}
    /\ stdout = <<>>
    /\ requests = <<>>
    /\ reply = Absent
    /\ img = Unset
    /\ info = NoInfo
    /\ ordered_places = <<>>
    /\ total_meters = 0
    /\ total_seconds = 0
    /\ png = "untouched"
    /\ png_opens = 0
    /\ exit = "running"

\* an uncaught exception e ends the run
Crash(e) == pc' = "exited" /\ exit' = e

PrintStops ==
    /\ pc = "start"
    /\ stdout' = stdout \o StopsOutput
    /\ pc' = "check_key"
    /\ UNCHANGED <<api_key, requests, reply, img, info, ordered_places, total_meters,
                   total_seconds, png, png_opens, exit>>

NoKey ==
    /\ pc = "check_key"
    /\ ~Truthy(api_key)
    /\ stdout' = stdout \o <<
           <<"No GOOGLE_MAPS_API_KEY found. Skipping Directions API call.">>,
           <<"Open this link for directions (original order):">>,
           build_gmaps_share_link(PLACES, NoOrder),
           Blank,
           <<"To compute optimized route and download a static map image, set GOOGLE_MAPS_API_KEY and re-run.">> >>
    /\ pc' = "exited"
    /\ exit' = "0"
    /\ UNCHANGED <<api_key, requests, reply, img, info, ordered_places, total_meters,
                   total_seconds, png, png_opens>>

\* the failed request issued once more before giving up
DirectionsFetchFails_retry ==
    /\ pc = "check_key"
    /\ Truthy(api_key)
    /\ requests' = requests \o <<DirectionsURL(api_key, PLACES),
                                 DirectionsURL(api_key, PLACES)>>
    /\ \E e \in FetchErrors : Crash(e)
    /\ UNCHANGED <<api_key, stdout, reply, img, info, ordered_places, total_meters,
                   total_seconds, png, png_opens>>

\* _http_get_json raises inside call_directions
DirectionsFetchFails ==
    /\ pc = "check_key"
    /\ Truthy(api_key)
    /\ requests' = Append(requests, DirectionsURL(api_key, PLACES))
    /\ \E e \in FetchErrors : Crash(e)
    /\ UNCHANGED <<api_key, stdout, reply, img, info, ordered_places, total_meters,
                   total_seconds, png, png_opens>>

\* call_directions gets a JSON document
CallDirections ==
    /\ pc = "check_key"
    /\ Truthy(api_key)
    /\ requests' = Append(requests, DirectionsURL(api_key, PLACES))
    /\ \E data \in DirectionsResponses :
         LET res == call_directions(data)
         IN  /\ reply' = data
             /\ IF res.raised # ""
                THEN Crash(res.raised) /\ info' = info
                ELSE pc' = "order" /\ info' = res.value /\ exit' = exit
    /\ UNCHANGED <<api_key, stdout, img, ordered_places, total_meters,
                   total_seconds, png, png_opens>>

BuildOrderedPlaces ==
    /\ pc = "order"
    /\ IF OrderInRange(PLACES, info.waypoint_order)
       THEN /\ ordered_places' = OrderedPlaces(info.waypoint_order)
            /\ pc' = "totals"
            /\ exit' = exit
       ELSE Crash("IndexError") /\ ordered_places' = ordered_places
    /\ UNCHANGED <<api_key, stdout, requests, reply, img, info, total_meters,
                   total_seconds, png, png_opens>>

ComputeTotals ==
    /\ pc = "totals"
    /\ IF \E k \in 1..Len(info.legs) : LegRaises(info.legs[k])
       THEN Crash("AttributeError") /\ UNCHANGED <<total_meters, total_seconds>>
       ELSE /\ total_meters' = SumLegs(info.legs, "distance")
            /\ total_seconds' = SumLegs(info.legs, "duration")
            /\ pc' = "print_itinerary"
            /\ exit' = exit
    /\ UNCHANGED <<api_key, stdout, requests, reply, img, info, ordered_places, png, png_opens>>

PrintItinerary ==
    /\ pc = "print_itinerary"
    /\ stdout' = stdout \o << <<"Optimized Itinerary:">> >> \o StopLines(ordered_places)
    /\ pc' = "print_totals"
    /\ UNCHANGED <<api_key, requests, reply, img, info, ordered_places, total_meters,
                   total_seconds, png, png_opens, exit>>

PrintTotals ==
    /\ pc = "print_totals"
    /\ stdout' = stdout \o <<
           Blank,
           <<"Total Distance: ">> \o format_distance_meters(total_meters),
           <<"Total Duration: ">> \o format_duration_seconds(total_seconds) >>
    /\ pc' = "share_link"
    /\ UNCHANGED <<api_key, requests, reply, img, info, ordered_places, total_meters,
                   total_seconds, png, png_opens, exit>>

PrintShareLink ==
    /\ pc = "share_link"
    /\ stdout' = stdout \o <<
           Blank,
           <<"Open this link for directions (optimized order):">>,
           build_gmaps_share_link(PLACES, Order(info.waypoint_order)) >>
    /\ pc' = "static_map"
    /\ UNCHANGED <<api_key, requests, reply, img, info, ordered_places, total_meters,
                   total_seconds, png, png_opens, exit>>

\* what can happen inside save_static_map, in the order of its statements
StaticOutcomes == {"fetch_fails", "open_fails", "write_fails", "saved"}

\* no try around save_static_map: its exception ends the run
SaveStaticMap_uncaught ==
    /\ pc = "static_map"
    /\ requests' = Append(requests, StaticMapURL(api_key, info.polyline, ordered_places))
    /\ \E outcome \in StaticOutcomes :
         /\ img' = (IF outcome = "fetch_fails" THEN img ELSE "PNG")
         /\ png_opens' = IF outcome \in {"write_fails", "saved"}
                         THEN png_opens + 1 ELSE png_opens
         /\ png' = CASE outcome = "saved" -> "written"
                     [] outcome = "write_fails" -> "truncated"
                     [] OTHER -> png
         /\ IF outcome = "saved"
            THEN /\ stdout' = stdout \o <<Blank>> \o
                        << <<"Static route map saved to: ", "spain_route.png">> >>
                 /\ exit' = "returned"
            ELSE /\ stdout' = stdout
                 /\ exit' = (IF outcome = "fetch_fails" THEN "URLError" ELSE "OSError")
    /\ pc' = "exited"
    /\ UNCHANGED <<api_key, reply, info, ordered_places, total_meters, total_seconds>>

\* the file opened for writing before the image is fetched
SaveStaticMap_open_first ==
    /\ pc = "static_map"
    /\ requests' = Append(requests, StaticMapURL(api_key, info.polyline, ordered_places))
    /\ \E outcome \in StaticOutcomes :
         /\ img' = (IF outcome = "fetch_fails" THEN img ELSE "PNG")
         /\ png_opens' = IF outcome # "open_fails" THEN png_opens + 1 ELSE png_opens
         /\ png' = CASE outcome = "saved" -> "written"
                     [] outcome = "open_fails" -> png
                     [] OTHER -> "truncated"
         /\ stdout' = stdout \o <<Blank>> \o
              (IF outcome = "saved"
               THEN << <<"Static route map saved to: ", "spain_route.png">> >>
               ELSE << <<"Failed to save static map image: ", outcome>> >>)
    /\ pc' = "exited"
    /\ exit' = "returned"
    /\ UNCHANGED <<api_key, reply, info, ordered_places, total_meters, total_seconds>>

SaveStaticMap ==
    /\ pc = "static_map"
    /\ requests' = Append(requests, StaticMapURL(api_key, info.polyline, ordered_places))
    /\ \E outcome \in StaticOutcomes :
         /\ img' = (IF outcome = "fetch_fails" THEN img ELSE "PNG")
         /\ png_opens' = IF outcome \in {"write_fails", "saved"}
                         THEN png_opens + 1 ELSE png_opens
         /\ png' = CASE outcome = "saved" -> "written"
                     [] outcome = "write_fails" -> "truncated"
                     [] OTHER -> png
         /\ stdout' = stdout \o <<Blank>> \o
              (IF outcome = "saved"
               THEN << <<"Static route map saved to: ", "spain_route.png">> >>
               ELSE << <<"Failed to save static map image: ", outcome>> >>)
    /\ pc' = "exited"
    /\ exit' = "returned"
    /\ UNCHANGED <<api_key, reply, info, ordered_places, total_meters, total_seconds>>

Next ==
    \/ PrintStops
    \/ NoKey
    \/ DirectionsFetchFails
    \/ CallDirections
    \/ BuildOrderedPlaces
    \/ ComputeTotals
    \/ PrintItinerary
    \/ PrintTotals
    \/ PrintShareLink
    \/ SaveStaticMap

Spec == Init /\ [][Next]_vars

-----------------------------------------------------------------------------
(* The totals section of main on its own: main stands at its totals loop   *)
(* after a Directions answer whose legs carry the distances and durations  *)
(* to be summed and formatted.                                             *)

TotalsLegLists ==
    {<< LegDict(ValueDict(JInt(d)), Absent) >> : d \in 0..MaxMeters}
    \cup {<< LegDict(Absent, ValueDict(JInt(s))) >> : s \in 0..MaxSeconds}
    \cup LegLists

TotalsReplies ==
    {ResponseDict(JStr("OK"), JList(<< RouteDict(Absent, JList(l), Absent) >>)) :
        l \in TotalsLegLists}

InitTotals ==
    /\ pc = "totals"
    /\ api_key = "KEY"
    /\ stdout = StopsOutput
    /\ requests = <<DirectionsURL("KEY", PLACES)>>
    /\ reply \in TotalsReplies
    /\ img = Unset
    /\ info = call_directions(reply).value
    /\ ordered_places = OrderedPlaces(info.waypoint_order)
    /\ total_meters = 0
    /\ total_seconds = 0
    /\ png = "untouched"
    /\ png_opens = 0
    /\ exit = "running"

NextTotals ==
    \/ ComputeTotals
    \/ PrintItinerary
    \/ PrintTotals

SpecTotals == InitTotals /\ [][NextTotals]_vars

-----------------------------------------------------------------------------
(* Reading the outputs back: what a reader of stdout, of a link or of a    *)
(* request sees.                                                           *)

IsPrefix(p, t) == Len(p) <= Len(t) /\ SubSeq(t, 1, Len(p)) = p

Drop(t, k) == SubSeq(t, k + 1, Len(t))

RECURSIVE unquote(_)
\* percent-decoding: each %XX group of a character gives the character back
unquote(t) ==
    IF t = <<>> THEN <<>>
    ELSE IF Head(t) # "%" THEN <<Head(t)>> \o unquote(Tail(t))
    ELSE LET cands == {c \in DOMAIN Utf8Hex : IsPrefix(PercentBytes(Utf8Hex[c]), t)}
         IN  IF cands = {} THEN <<"%">> \o unquote(Tail(t))
             ELSE LET c == CHOOSE x \in cands : TRUE
                  IN  <<c>> \o unquote(Drop(t, 2 * Len(Utf8Hex[c])))

RECURSIVE SplitOn(_, _)
\* the pieces of t between the tokens equal to sep
SplitOn(t, sep) ==
    IF \A i \in 1..Len(t) : t[i] # sep THEN <<t>>
    ELSE LET i == CHOOSE j \in 1..Len(t) :
                      t[j] = sep /\ \A k \in 1..(j - 1) : t[k] # sep
         IN  <<SubSeq(t, 1, i - 1)>> \o SplitOn(Drop(t, i), sep)

RECURSIVE ValuesOf(_, _)
\* the decoded values of the query parameters named key, in order
ValuesOf(parts, key) ==
    IF parts = <<>> THEN <<>>
    ELSE (IF Len(Head(parts)) >= 2 /\ Head(parts)[1] = key /\ Head(parts)[2] = "="
          THEN <<unquote(Drop(Head(parts), 2))>>
          ELSE <<>>)
         \o ValuesOf(Tail(parts), key)

\* the stops a share link shows: origin, waypoints, destination
LinkStops(link) ==
    LET parts == SplitOn(Drop(link, 1), "&")
        w == ValuesOf(parts, "waypoints")
    IN  ValuesOf(parts, "origin")
        \o (IF w = <<>> THEN <<>> ELSE SplitOn(w[1], "|"))
        \o ValuesOf(parts, "destination")

\* the markers of a Static Maps request, each split at its bars:
\* colour, label, place
Markers(url) ==
    LET vals == ValuesOf(SplitOn(Drop(url, 2), "&"), "markers")
    IN  [k \in 1..Len(vals) |-> SplitOn(vals[k], "|")]

IsShareLink(line) == line # <<>> /\ line[1] = ShareBase
ShareLinks(out) == {i \in 1..Len(out) : IsShareLink(out[i])}

ItineraryHeaders(out) == {i \in 1..Len(out) : out[i] = <<"Optimized Itinerary:">>}
DistanceLines(out) == {i \in 1..Len(out) : out[i] # <<>> /\ out[i][1] = "Total Distance: "}
DurationLines(out) == {i \in 1..Len(out) : out[i] # <<>> /\ out[i][1] = "Total Duration: "}
FailureLines(out) ==
    {i \in 1..Len(out) : out[i] # <<>> /\ out[i][1] = "Failed to save static map image: "}

\* the numbered lines between the itinerary header and the next blank line
ItineraryLines(out) ==
    LET h == CHOOSE i \in ItineraryHeaders(out) : TRUE
        stop == {i \in (h + 1)..Len(out) : out[i] = Blank}
        last == IF stop = {} THEN Len(out)
                ELSE (CHOOSE i \in stop : \A j \in stop : i <= j) - 1
    IN  SubSeq(out, h + 1, last)

\* of a numbered line: where its number ends
DotAt(line) == CHOOSE i \in 1..Len(line) : line[i] = ". "
StopNumber(line) == SubSeq(line, 2, DotAt(line) - 1)
StopPlace(line) == Drop(line, DotAt(line))

PrintedItinerary(out) ==
    [k \in 1..Len(ItineraryLines(out)) |-> StopPlace(ItineraryLines(out)[k])]

IsDirectionsRequest(url) == url[1] = DirectionsBase
IsStaticMapRequest(url) == url[1] = StaticMapBase

ReplyGiven == reply.t = "dict"
ReplyStatusOK ==
    ReplyGiven /\ reply.v.status.t = "str" /\ reply.v.status.v = "OK"
ReplyHasRoute == ReplyGiven /\ reply.v.routes.t = "list" /\ reply.v.routes.v # <<>>
ReplyRoute == reply.v.routes.v[1]

-----------------------------------------------------------------------------
(* Claims                                                                  *)

\* C1: every run of main prints a shareable Google Maps directions link
\* before it ends, whatever the key and whatever the two services answer.
\* Stated on the final state: a run that has ended has printed a share link.
C1_ShareLinkAlwaysPrinted ==
    pc = "exited" => ShareLinks(stdout) # {}

\* C2: when the Directions response has a status other than OK,
\* call_directions raises an error that ends the run: no step of main
\* follows, no optimized itinerary, no totals and no share link are printed,
\* the Directions request is the only request issued, and spain_route.png
\* is not written.
C2_NonOKStatusEndsRun ==
    (ReplyGiven /\ ~ReplyStatusOK) =>
        /\ pc = "exited"
        /\ exit = "RuntimeError"
        /\ ~ENABLED Next
        /\ ItineraryHeaders(stdout) = {}
        /\ DistanceLines(stdout) = {}
        /\ DurationLines(stdout) = {}
        /\ ShareLinks(stdout) = {}
        /\ requests = <<DirectionsURL(api_key, PLACES)>>
        /\ png = "untouched"
        /\ png_opens = 0

\* C2 witness: a response that carries a route and a status other than OK
\* has been received.
C2_Witness ==
    ReplyGiven /\ ~ReplyStatusOK /\ ReplyHasRoute /\ reply.v.status.t = "str"

\* the Static Maps request was issued and the image was not saved
StaticMapFailed == pc = "exited" /\ Len(requests) = 2 /\ png # "written"

\* the optimized itinerary, both totals and the optimized share link are
\* in out, all of them before line number before
AllPrintedBefore(out, before) ==
    /\ \E i \in ItineraryHeaders(out) : i < before
    /\ \E i \in DistanceLines(out) : i < before
    /\ \E i \in DurationLines(out) : i < before
    /\ \E i \in ShareLinks(out) : i < before

\* C3: a failure inside save_static_map (the request failing, the file not
\* opening, the write failing) is caught in main: the run ends normally, its
\* last line is the failure message, and the optimized itinerary, the totals
\* and the optimized share link were printed before save_static_map was
\* entered, so before the failure.
C3_StaticMapFailureCaught ==
    /\ pc = "static_map" => AllPrintedBefore(stdout, Len(stdout) + 1)
    /\ StaticMapFailed =>
        /\ exit = "returned"
        /\ FailureLines(stdout) = {Len(stdout)}
        /\ AllPrintedBefore(stdout, Len(stdout))

\* C3 witness: the file was opened and the write failed.
C3_Witness == StaticMapFailed /\ png = "truncated"

\* C4: at most two requests are issued in a run: the Directions request at
\* most once and first, the Static Maps request at most once, second, and
\* only after the Directions request was answered with status OK; a run
\* that failed has repeated no request.
C4_AtMostTwoRequestsNoRetry ==
    /\ Len(requests) <= 2
    /\ Cardinality({i \in 1..Len(requests) : IsDirectionsRequest(requests[i])}) <= 1
    /\ Cardinality({i \in 1..Len(requests) : IsStaticMapRequest(requests[i])}) <= 1
    /\ \A i \in 1..Len(requests) :
         IsStaticMapRequest(requests[i]) =>
            i = 2 /\ IsDirectionsRequest(requests[1]) /\ ReplyStatusOK
    /\ \A i \in 1..Len(requests) :
         IsDirectionsRequest(requests[i]) \/ IsStaticMapRequest(requests[i])

\* C4 witness: both requests were issued, the second one failed, and the run
\* has ended.
C4_Witness == pc = "exited" /\ Len(requests) = 2 /\ img = Unset

\* GOOGLE_MAPS_API_KEY is unset or set to the empty string
KeyUnsetOrEmpty == api_key = None \/ api_key = ""

\* C5: with GOOGLE_MAPS_API_KEY unset or empty the run issues no request,
\* and when it has ended it has exited with status 0 and printed exactly one
\* share link, whose origin is the first place, whose destination is the
\* last place and whose waypoints are the interior places in their original
\* order, and neither an optimized itinerary nor totals.
C5_NoKeyRun ==
    KeyUnsetOrEmpty =>
        /\ requests = <<>>
        /\ pc = "exited" =>
            /\ exit = "0"
            /\ Cardinality(ShareLinks(stdout)) = 1
            /\ \A i \in ShareLinks(stdout) :
                 LinkStops(stdout[i]) =
                    <<PLACES[1]>> \o Interior(PLACES) \o <<Last(PLACES)>>
            /\ ItineraryHeaders(stdout) = {}
            /\ DistanceLines(stdout) = {}
            /\ DurationLines(stdout) = {}

\* C5 witness: a run with the key set to the empty string has ended.
C5_Witness == api_key = "" /\ pc = "exited"

\* C6: spain_route.png is opened for writing at most once in a run, and
\* only in a run where the key is set, the Directions request was answered
\* with status OK and the Static Maps request returned its bytes; in every
\* other run the file is left untouched.
C6_FileWrittenOnlyAfterBothRequests ==
    /\ png_opens <= 1
    /\ (png # "untouched" \/ png_opens > 0) =>
        /\ ~KeyUnsetOrEmpty
        /\ ReplyStatusOK
        /\ Len(requests) = 2
        /\ IsStaticMapRequest(requests[2])
        /\ img = "PNG"

\* C6 witness: the image was written.
C6_Witness == png = "written" /\ png_opens = 1

\* waypoint_order is a permutation of 0..len(PLACES)-3
IsPermutation(o) ==
    /\ Len(o) = Len(PLACES) - 2
    /\ {o[k] : k \in 1..Len(o)} = 0..(Len(PLACES) - 3)

\* the response is OK and its waypoint_order is absent or a permutation
WellFormedOrder ==
    /\ ReplyStatusOK
    /\ ReplyHasRoute
    /\ \/ ReplyRoute.v.waypoint_order.t = "absent"
       \/ /\ ReplyRoute.v.waypoint_order.t = "list"
          /\ IsPermutation(ReplyRoute.v.waypoint_order.v)

\* C7: when the Directions response is OK and its waypoint_order is a
\* permutation of 0..len(PLACES)-3 or absent, the printed optimized
\* itinerary holds every place of PLACES exactly once, starts with the
\* first place and ends with the last one.
C7_ItineraryIsPermutation ==
    (WellFormedOrder /\ ItineraryHeaders(stdout) # {}) =>
        LET it == PrintedItinerary(stdout)
        IN  /\ Len(it) = Len(PLACES)
            /\ \A p \in 1..Len(PLACES) :
                 Cardinality({k \in 1..Len(it) : it[k] = PLACES[p]}) = 1
            /\ it[1] = PLACES[1]
            /\ it[Len(it)] = Last(PLACES)

\* C7 witness: the itinerary was printed for a permutation that moves stops.
C7_Witness ==
    /\ WellFormedOrder
    /\ ItineraryHeaders(stdout) # {}
    /\ ReplyRoute.v.waypoint_order.t = "list"
    /\ ReplyRoute.v.waypoint_order.v # IdentityOrder
    /\ PrintedItinerary(stdout) # PLACES

\* C8: in a run with an OK Directions response the outputs agree on the
\* order of the stops for any waypoint_order: the origin, waypoints and
\* destination of the optimized share link are the printed itinerary, and
\* so are the marker places of the Static Maps request, marker k carrying
\* the number printed for itinerary line k.
C8_OutputsAgreeOnOrder ==
    ReplyStatusOK =>
        /\ \A i \in ShareLinks(stdout) :
             LinkStops(stdout[i]) = PrintedItinerary(stdout)
        /\ \A r \in 1..Len(requests) :
             IsStaticMapRequest(requests[r]) =>
                LET ms == Markers(requests[r])
                    lines == ItineraryLines(stdout)
                IN  /\ Len(ms) = Len(lines)
                    /\ \A k \in 1..Len(ms) :
                         /\ Len(ms[k]) = 3
                         /\ ms[k][3] = StopPlace(lines[k])
                         /\ ms[k][2] = <<"label", ":">> \o StopNumber(lines[k])

\* C8 witness: the static map was requested for a waypoint_order that is no
\* permutation: it names a stop twice, one of the times from the end.
C8_Witness ==
    /\ ReplyStatusOK
    /\ Len(requests) = 2
    /\ info.waypoint_order = <<-1, 2, 0>>

\* C9: format_duration_seconds(s), with h = s div 3600 and
\* m = (s mod 3600) div 60, prints h, the letter h, a space, m, the letter m
\* when h > 0 and m > 0; h and the letter h when h > 0 and m = 0; m and the
\* letter m when h = 0; it is never empty and m is in 0..59.
C9_DurationFormat ==
    \A i \in DurationLines(stdout) :
        LET text == Tail(stdout[i])
            h == total_seconds \div 3600
            m == (total_seconds % 3600) \div 60
        IN  /\ m \in 0..59
            /\ text # <<>>
            /\ (h > 0 /\ m > 0) => text = Dec(h) \o <<"h", " ">> \o Dec(m) \o <<"m">>
            /\ (h > 0 /\ m = 0) => text = Dec(h) \o <<"h">>
            /\ h = 0 => text = Dec(m) \o <<"m">>

\* C9 witness: a total of one hour and one minute was printed.
C9_Witness == DurationLines(stdout) # {} /\ total_seconds = 3660

\* the integer nearest to n / d, a tie going to the even one
NearestEven(n, d) ==
    LET q == n \div d
        r == n % d
    IN  IF 2 * r < d THEN q
        ELSE IF 2 * r > d THEN q + 1
        ELSE IF q % 2 = 0 THEN q ELSE q + 1

RECURSIVE ReplyMeters(_)
\* the sum of the distance values of the legs, a missing or null one as 0
ReplyMeters(legs) ==
    IF legs = <<>> THEN 0
    ELSE LET dist == Head(legs).v.distance
             value == IF dist.t = "dict" THEN dist.v.value ELSE Absent
         IN  (IF value.t = "int" THEN value.v ELSE 0) + ReplyMeters(Tail(legs))

\* C10: format_distance_meters(d) prints a whole number of kilometres, d/1000
\* rounded to the nearest integer with ties to even, exactly when
\* d >= 10000, and otherwise d/1000 to one decimal place, each followed by
\* km; the total it is applied to is the sum of the legs' distance values, a
\* missing or null value counted as 0.
C10_DistanceFormat ==
    \A i \in DistanceLines(stdout) :
        LET text == Tail(stdout[i])
            d == total_meters
        IN  /\ d = ReplyMeters(ReplyRoute.v.legs.v)
            /\ d >= 10000 => text = Dec(NearestEven(d, 1000)) \o <<" ", "km">>
            /\ d < 10000 =>
                 \E t \in {d \div 100, d \div 100 + 1} :
                    /\ 100 * t - d <= 50 /\ d - 100 * t <= 50
                    /\ text = Dec(t \div 10) \o <<".">> \o Dec(t % 10) \o <<" ", "km">>

\* C10 witness: a total on a tie between two whole kilometres was printed.
C10_Witness ==
    /\ DistanceLines(stdout) # {}
    /\ total_meters >= 10000
    /\ total_meters % 1000 = 500

====
